---- MODULE Spec2Model ----
(***************************************************************************)
(* WikiBandits: the SubjectLog (nodes, edges, frontier queue), the Bandit  *)
(* policies and the Crawler's pop/process loop.                            *)
(*                                                                         *)
(* A url is a sequence of tokens.  The token "/" is the separator that     *)
(* str.split('/') and str.strip('/') act on, "_" and " " are the           *)
(* characters str.replace('_',' ') acts on, every other token is a run of  *)
(* characters without any of these three.                                  *)
(***************************************************************************)
EXTENDS Integers, Sequences, FiniteSets, TLC

\* an absent (NaN) cell of the node table, and a present one
NaN == <<>>
Some(v) == <<v>>

\* ------------------------------------------------------------------ bounds
\* most edges the log holds (a fetch is cut to the room that is left); the
\* log of the Genealogist holds one more, see Room
MaxEdges == 3
\* the driver's page budget, max_pages of Crawler.done
MaxPages == 3
\* the driver's size budget, max_size of Crawler.done
MaxTotalSize == 3
\* largest total run count the explore-then-commit arms report
MaxRuns == 2

\* ------------------------------------------------------------ url algebra
Last(s) == s[Len(s)]

NoSlash(s) == \A i \in 1..Len(s) : s[i] # "/"

FirstSlash(s) == CHOOSE i \in 1..Len(s) : s[i] = "/" /\ \A j \in 1..(i-1) : s[j] # "/"

\* str.split('/'): the segments between separators, empty ones included
RECURSIVE Split(_)
Split(s) ==
    IF NoSlash(s) THEN <<s>>
    ELSE <<SubSeq(s, 1, FirstSlash(s) - 1)>> \o Split(SubSeq(s, FirstSlash(s) + 1, Len(s)))

\* '/'.join(sections)
RECURSIVE Join(_)
Join(secs) ==
    IF Len(secs) = 0 THEN <<>>
    ELSE IF Len(secs) = 1 THEN secs[1]
    ELSE secs[1] \o <<"/">> \o Join(Tail(secs))

\* str.strip('/'): every leading and every trailing separator removed
RECURSIVE LStrip(_)
LStrip(s) == IF Len(s) > 0 /\ s[1] = "/" THEN LStrip(Tail(s)) ELSE s

RECURSIVE RStrip(_)
RStrip(s) == IF Len(s) > 0 /\ Last(s) = "/" THEN RStrip(SubSeq(s, 1, Len(s) - 1)) ELSE s

Strip(s) == RStrip(LStrip(s))

\* str.replace('_',' ')
Replace(s) == [i \in 1..Len(s) |-> IF s[i] = "_" THEN " " ELSE s[i]]

\* urlkey, computed: url.split('/')[-1].replace('_',' ')
KeyOf(url) == Replace(Last(Split(url)))

Prefix == <<"https:", "/", "/", "en.wikipedia.org">>

\* complete_url, computed
CompletedOf(url) ==
    LET sections == Split(Strip(url))
    IN  IF sections[1] = <<"wiki">> THEN Join(<<Prefix>> \o sections) ELSE url

\* '/wiki/' in href
HasWiki(s) == \E i \in 1..(Len(s) - 2) : s[i] = "/" /\ s[i+1] = "wiki" /\ s[i+2] = "/"

\* the order of str comparison: tokens ranked by their first character
Rank(t) ==
    CASE t = " " -> 32
      [] t = "/" -> 47
      [] t = "A" -> 65
      [] t = "B" -> 66
      [] t = "C" -> 67
      [] t = "_" -> 95
      [] t = "en.wikipedia.org" -> 101
      [] t = "https:" -> 104
      [] t = "wiki" -> 119

RECURSIVE StrLess(_, _)
StrLess(a, b) ==
    IF Len(b) = 0 THEN FALSE
    ELSE IF Len(a) = 0 THEN TRUE
    ELSE IF a[1] = b[1] THEN StrLess(Tail(a), Tail(b))
    ELSE Rank(a[1]) < Rank(b[1])

\* ------------------------------------------------------------- input urls
Rel(name) == <<"/", "wiki", "/">> \o name
Abs(name) == Prefix \o <<"/", "wiki", "/">> \o name

\* hrefs a fetched page may carry: relative, absolute, and with a
\* trailing separator
Hrefs ==
    { Rel(<<"A">>), Rel(<<"B">>), Abs(<<"C">>), Rel(<<"B">>) \o <<"/">> }

\* the starting url handed to the Crawler
StartUrls == { Abs(<<"A">>) }

\* the strings the crawl can pass to urlkey and complete_url: the input
\* urls, their completed forms and the keys of both
KnownUrls ==
    LET raw  == StartUrls \cup Hrefs
        full == raw \cup {CompletedOf(u) : u \in raw}
    IN  full \cup {KeyOf(u) : u \in full}

\* urlkey and complete_url worked out once for each of these strings
KeyTable == [u \in KnownUrls |-> KeyOf(u)]

CompletedTable == [u \in KnownUrls |-> CompletedOf(u)]

urlkey(url) == IF url \in KnownUrls THEN KeyTable[url] ELSE KeyOf(url)

complete_url(url) == IF url \in KnownUrls THEN CompletedTable[url] ELSE CompletedOf(url)

\* content-length values a page may report
Sizes == {1}

\* signs of the scalar the estimator reduces a context to
Estimates == {-1, 1}

\* content.count(subject) of a stored page: content is the list of its
\* lines, and no line of an HTML page is the subject word itself
Counts == {0}

RECURSIVE SeqsUpTo(_, _)
SeqsUpTo(S, n) ==
    IF n = 0 THEN {<<>>}
    ELSE LET shorter == SeqsUpTo(S, n - 1)
         IN  shorter \cup {Append(q, x) : q \in {r \in shorter : Len(r) = n - 1}, x \in S}

\* what the network answers to one GET: failure, or a page with its
\* content-length and the hrefs of its anchors
AllPages ==
    {[ok |-> FALSE, size |-> 1, hrefs |-> <<>>]}
    \cup {[ok |-> TRUE, size |-> z, hrefs |-> h] : z \in Sizes, h \in SeqsUpTo(Hrefs, MaxEdges + 1)}

\* the answers whose links fit the room left in the log, for each room
PagesByRoom ==
    [room \in 0..(MaxEdges + 1) |-> {page \in AllPages : Len(page.hrefs) <= room}]

Pages(room) == PagesByRoom[room]

\* ------------------------------------------------------------ SubjectLog
VARIABLES nodes, edges, unexplored

NodeKeys(nds) == {nds[i].key : i \in 1..Len(nds)}

\* url.split('/')[-1] worked out once for each known string
NameTable == [u \in KnownUrls |-> Last(Split(u))]

\* the file name download() saves the page under
PathOf(url) == (IF url \in KnownUrls THEN NameTable[url] ELSE Last(Split(url))) \o <<".html">>

\* SubjectLog.download: the node and the links of a page, an empty row
\* and no links when anything in the fetch raises
LinksOf(url, page) ==
    LET kept == SelectSeq(page.hrefs, HasWiki)
    IN  [i \in 1..Len(kept) |-> [source |-> url, target |-> kept[i]]]

EmptyRow(url) ==
    [key |-> urlkey(url), url |-> NaN, size |-> NaN, linkage |-> NaN,
     estimate |-> NaN, reward |-> NaN, path |-> NaN]

download(url, est, page) ==
    IF page.ok
    THEN [node |-> [key |-> urlkey(url), url |-> Some(url), size |-> Some(page.size),
                    linkage |-> Some(Len(LinksOf(url, page))), estimate |-> est,
                    reward |-> NaN, path |-> Some(PathOf(url))],
          links |-> LinksOf(url, page)]
    ELSE [node |-> EmptyRow(url), links |-> <<>>]

\* an add_url that queues only the targets that are not among the edges yet
add_urlQueuesNew(log, url, download_flag, est, page) ==
    IF download_flag
    THEN LET d == download(url, est, page)
             known == {log.edges[i].target : i \in 1..Len(log.edges)}
             fresh == SelectSeq(d.links, LAMBDA l : l.target \notin known)
         IN  [nodes |-> Append(log.nodes, d.node),
              edges |-> log.edges \o d.links,
              unexplored |-> log.unexplored \o [i \in 1..Len(fresh) |-> fresh[i].target]]
    ELSE [nodes |-> Append(log.nodes,
                           [EmptyRow(url) EXCEPT !.url = Some(url), !.estimate = est]),
          edges |-> log.edges,
          unexplored |-> log.unexplored]

\* an add_url that appends no row when the fetch has failed
add_urlDropsFailed(log, url, download_flag, est, page) ==
    IF download_flag
    THEN LET d == download(url, est, page)
         IN  [nodes |-> IF page.ok THEN Append(log.nodes, d.node) ELSE log.nodes,
              edges |-> log.edges \o d.links,
              unexplored |-> log.unexplored \o [i \in 1..Len(d.links) |-> d.links[i].target]]
    ELSE [nodes |-> Append(log.nodes,
                           [EmptyRow(url) EXCEPT !.url = Some(url), !.estimate = est]),
          edges |-> log.edges,
          unexplored |-> log.unexplored]

\* SubjectLog.add_url as a function of the log: the row is appended
\* whether or not its key is already in the index
add_url(log, url, download_flag, est, page) ==
    IF download_flag
    THEN LET d == download(url, est, page)
         IN  [nodes |-> Append(log.nodes, d.node),
              edges |-> log.edges \o d.links,
              unexplored |-> log.unexplored \o [i \in 1..Len(d.links) |-> d.links[i].target]]
    ELSE [nodes |-> Append(log.nodes,
                           [EmptyRow(url) EXCEPT !.url = Some(url), !.estimate = est]),
          edges |-> log.edges,
          unexplored |-> log.unexplored]

\* pop that hands out the head of the queue without looking at the index
popUnchecked(queue, nds) ==
    IF Len(queue) = 0 THEN [raised |-> TRUE, url |-> <<>>, unexplored |-> <<>>]
    ELSE [raised |-> FALSE, url |-> complete_url(Head(queue)), unexplored |-> Tail(queue)]

\* pop that gives up at the first entry already in the index
popGivesUp(queue, nds) ==
    IF Len(queue) = 0 \/ urlkey(Head(queue)) \in NodeKeys(nds)
    THEN [raised |-> TRUE, url |-> <<>>, unexplored |-> <<>>]
    ELSE [raised |-> FALSE, url |-> complete_url(Head(queue)), unexplored |-> Tail(queue)]

\* SubjectLog.pop: the queue is consumed from the front until an entry
\* whose key is not in the index turns up
RECURSIVE pop(_, _)
pop(queue, nds) ==
    IF Len(queue) = 0 THEN [raised |-> TRUE, url |-> <<>>, unexplored |-> <<>>]
    ELSE IF urlkey(Head(queue)) \in NodeKeys(nds) THEN pop(Tail(queue), nds)
    ELSE [raised |-> FALSE, url |-> complete_url(Head(queue)), unexplored |-> Tail(queue)]

\* SubjectLog.linkage: the edges whose target has the key of url
linkage(edgs, url) == Cardinality({i \in 1..Len(edgs) : urlkey(edgs[i].target) = urlkey(url)})

\* the count column of groupby('target').count(): the edges with exactly
\* this target string
Incoming(edgs, target) == Cardinality({i \in 1..Len(edgs) : edgs[i].target = target})

\* the row order after groupby (targets ascending) and the descending
\* sort on the count, which keeps ties in the groupby order
RowBefore(edgs, t1, t2) ==
    \/ Incoming(edgs, t1) > Incoming(edgs, t2)
    \/ Incoming(edgs, t1) = Incoming(edgs, t2) /\ StrLess(t1, t2)

\* the rows left after drop(nodes.index.map(urlkey)): row labels are the
\* keys of the target strings
Remaining(targets, nds) ==
    {t \in targets : urlkey(t) \notin {urlkey(k) : k \in NodeKeys(nds)}}

\* incoming.url[0]: the url column (the completed target) of the first
\* row, an IndexError when no row is left
FirstRow(edgs, rows) ==
    IF rows = {} THEN [raised |-> TRUE, url |-> <<>>]
    ELSE [raised |-> FALSE,
          url |-> complete_url(CHOOSE t \in rows : \A o \in rows \ {t} : RowBefore(edgs, t, o))]

\* the parents of url: the distinct sources of the edges landing on its key
Parents(edgs, url) ==
    {edgs[i].source : i \in {j \in 1..Len(edgs) : urlkey(edgs[j].target) = urlkey(url)}}

\* the siblings of url: the distinct targets of the edges leaving a parent
Siblings(edgs, url) ==
    {edgs[i].target : i \in {j \in 1..Len(edgs) : edgs[j].source \in Parents(edgs, url)}}

\* the children of url: the distinct targets of the edges whose source
\* has the key of url
Children(edgs, url) ==
    {edgs[i].target : i \in {j \in 1..Len(edgs) : urlkey(edgs[j].source) = urlkey(url)}}

pick_sibling(edgs, nds, url) == FirstRow(edgs, Remaining(Siblings(edgs, url), nds))

pick_child(edgs, nds, url) == FirstRow(edgs, Remaining(Children(edgs, url), nds))

\* SubjectLog.length, size, downloads
length(nds) == Len(nds)

RECURSIVE size(_)
size(nds) ==
    IF Len(nds) = 0 THEN 0
    ELSE (IF Head(nds).size = NaN THEN 0 ELSE Head(nds).size[1]) + size(Tail(nds))

downloads(nds) == Cardinality({i \in 1..Len(nds) : nds[i].path # NaN})

\* ---------------------------------------------------------------- Bandits
VARIABLES policy, current_arm, winner

\* current_arm = None, winner = None
NoArm == -1

MAX_PAGES == 100

Policies == {"ClassyBandit", "Lefty", "Genealogist", "Crampy"}

\* the arms each policy is built with
Arms(p) ==
    CASE p = "ClassyBandit" -> <<"Classifier">>
      [] p = "Lefty" -> <<"Classifier", "LameArm">>
      [] p = "Genealogist" -> <<"Connector", "Connector">>
      [] p = "Crampy" -> <<"Classifier", "LinearArm">>

\* np.random.randint(low, high): high is exclusive
randint(low, high) == low..(high - 1)

\* an estimate: the sign of the scalar, or PropsFetchError raised by the
\* relevance oracle or the size probe
Raised == [ok |-> FALSE, val |-> 0]
Value(v) == [ok |-> TRUE, val |-> v]

\* _evaluate, given whether wiki_relevance and wiki_size answer and the
\* sign v the classifier gives: Classifier._evaluate lets PropsFetchError
\* through, Connector._evaluate does not call the oracle and catches the
\* size probe's
Evaluate(kind, relevance_ok, size_ok, v) ==
    IF kind = "Connector" THEN Value(v)
    ELSE IF relevance_ok /\ size_ok THEN Value(v)
    ELSE Raised

EstimatesOf(kind) ==
    {Evaluate(kind, relevance_ok, size_ok, v) :
        relevance_ok \in BOOLEAN, size_ok \in BOOLEAN, v \in Estimates}

\* Lefty.pick_arm; greedy is the outcome of rand() > epsilon
LeftyPickArm(greedy, est0, r) ==
    IF greedy THEN (IF est0 > 0 THEN 0 ELSE 1) ELSE r

LeftyRandom == randint(0, 1)

\* Genealogist.pick_arm
GenealogistPickArm(greedy, est0, est1, r) ==
    IF greedy THEN (IF est0 > est1 THEN 0 ELSE 1) ELSE r

GenealogistRandom == randint(0, 1)

\* mean0 - mean1 > 4 * sqrt(2 * MAX_PAGES / (runs + 1)), in integers
Outperforms(mean0, mean1, runs) ==
    /\ mean0 - mean1 > 0
    /\ (mean0 - mean1) * (mean0 - mean1) * (runs + 1) > 16 * 2 * MAX_PAGES

\* a winner that is decided anew at every call
CrampyWinnerAnew(win, mean0, mean1, runs) ==
    IF Outperforms(mean0, mean1, runs) THEN 0
    ELSE IF Outperforms(mean1, mean0, runs) THEN 1
    ELSE win

\* Crampy.pick_arm: the winner after the call and the arm returned
CrampyWinner(win, mean0, mean1, runs) ==
    IF win # NoArm THEN win
    ELSE IF Outperforms(mean0, mean1, runs) THEN 0
    ELSE IF Outperforms(mean1, mean0, runs) THEN 1
    ELSE NoArm

CrampyPickArm(win, mean0, mean1, runs, r) ==
    IF CrampyWinner(win, mean0, mean1, runs) = NoArm THEN r
    ELSE CrampyWinner(win, mean0, mean1, runs)

CrampyRandom == randint(0, 2)

\* running means the two arms may report
Means == {0, 40}

\* ---------------------------------------------------------------- Crawler
\* current_url is the crawler's candidate and pc its position in the
\* driver's loop.  acted and rewarded record the arm whose action() logged
\* the url and the arm whose reward() was called in the last process(),
\* committed the winner Crampy.pick_arm found set when it was last called.
\* repo is the folder repos/<subject>/: the files written in this run, in
\* the order they were written, each with the number of rows and of edges
\* the log held at the moment it was written.  iterations counts the calls
\* of Crawler.pop the driver has made.
VARIABLES current_url, pc, acted, rewarded, committed, repo, iterations

vars ==
    <<nodes, edges, unexplored, policy, current_arm, winner, current_url, pc,
      acted, rewarded, committed, repo, iterations>>

EmptyLog == [nodes |-> <<>>, edges |-> <<>>, unexplored |-> <<>>]

Log == [nodes |-> nodes, edges |-> edges, unexplored |-> unexplored]

NoPage == [ok |-> FALSE, size |-> 1, hrefs |-> <<>>]

\* the edges the log of a policy may hold.  Genealogist.pop returns only
\* when the last url has a parent and a child, which takes a link of the
\* starting page to itself; its log is given one more edge, so that its two
\* candidates can be different urls
Room(p) == IF p = "Genealogist" THEN MaxEdges + 1 ELSE MaxEdges

\* the pages a fetch may return now: their links fit the edge bound
Fetchable == Pages(Room(policy) - Len(edges))

\* a download context that writes the page whether or not its body raised
StoredAlways(rp, log, url, download_flag, page) ==
    IF download_flag /\ PathOf(url) \notin {rp[i].path : i \in 1..Len(rp)}
    THEN Append(rp, [path |-> PathOf(url), rows |-> Len(log.nodes), edges |-> Len(log.edges)])
    ELSE rp

\* the repo after add_url: when the body of the download context ends
\* without raising, the context opens the path with "x" and writes the
\* page, before SubjectLog.download returns to add_url; a path that is
\* already there raises FileExistsError, which the context swallows
Stored(rp, log, url, download_flag, page) ==
    IF download_flag /\ page.ok /\ PathOf(url) \notin {rp[i].path : i \in 1..Len(rp)}
    THEN Append(rp, [path |-> PathOf(url), rows |-> Len(log.nodes), edges |-> Len(log.edges)])
    ELSE rp

\* Crawler.__init__: the starting url is logged with the download flag
\* and without properties, the bandit starts with no arm picked
Init ==
    \E url0 \in StartUrls, p \in Policies : \E page \in Pages(Room(p)) :
        LET log == add_url(EmptyLog, url0, TRUE, NaN, page)
        IN  /\ nodes = log.nodes
            /\ edges = log.edges
            /\ unexplored = log.unexplored
            /\ current_url = url0
            /\ policy = p
            /\ current_arm = NoArm
            /\ winner = NoArm
            /\ pc = "ready"
            /\ acted = NoArm
            /\ rewarded = NoArm
            /\ committed = NoArm
            /\ repo = Stored(<<>>, EmptyLog, url0, TRUE, page)
            /\ iterations = 0

\* Crawler.done
done(max_pages, max_size) == length(nodes) >= max_pages \/ size(nodes) >= max_size

\* the driver's loop goes on to the next pop() until done() holds, with
\* the budgets it was started with
Looping == ~done(MaxPages, MaxTotalSize)

\* log.nodes.url.dropna().iloc[-1]
LastUrl(nds) ==
    LET logged == SelectSeq(nds, LAMBDA n : n.url # NaN)
    IN  IF Len(logged) = 0 THEN [raised |-> TRUE, url |-> <<>>]
        ELSE [raised |-> FALSE, url |-> Last(logged).url[1]]

\* a Genealogist.pop that returns the candidate of the arm not picked
GenealogistPopOther(greedy, est0, est1, r) ==
    LET last == LastUrl(nodes)
        url0 == pick_sibling(edges, nodes, last.url)
        url1 == pick_child(edges, nodes, last.url)
        arm  == GenealogistPickArm(greedy, est0, est1, r)
    IN  IF last.raised \/ url0.raised \/ url1.raised
        THEN [raised |-> TRUE, arm |-> current_arm, url |-> current_url]
        ELSE [raised |-> FALSE, arm |-> arm, url |-> IF arm # 0 THEN url0.url ELSE url1.url]

\* Genealogist.pop: the sibling and the child of the last logged url, the
\* arm picked between them, and the url of that arm
GenealogistPop(greedy, est0, est1, r) ==
    LET last == LastUrl(nodes)
        url0 == pick_sibling(edges, nodes, last.url)
        url1 == pick_child(edges, nodes, last.url)
        arm  == GenealogistPickArm(greedy, est0, est1, r)
    IN  IF last.raised \/ url0.raised \/ url1.raised
        THEN [raised |-> TRUE, arm |-> current_arm, url |-> current_url]
        ELSE [raised |-> FALSE, arm |-> arm, url |-> IF arm # 0 THEN url1.url ELSE url0.url]

\* Crawler.pop with Bandit.pop, which is log.pop()
PopQueue ==
    /\ pc = "ready"
    /\ Looping
    /\ policy # "Genealogist"
    /\ LET r == pop(unexplored, nodes)
       IN  /\ unexplored' = r.unexplored
           /\ pc' = IF r.raised THEN "empty" ELSE "popped"
           /\ current_url' = IF r.raised THEN current_url ELSE r.url
    /\ acted' = NoArm
    /\ rewarded' = NoArm
    /\ iterations' = iterations + 1
    /\ UNCHANGED <<nodes, edges, policy, current_arm, winner, committed, repo>>

\* a Crawler.pop with Genealogist.pop that also takes the head of the
\* frontier, as log.pop() does
PopGenealogistConsuming(greedy) ==
    /\ pc = "ready"
    /\ Looping
    /\ policy = "Genealogist"
    /\ \E g \in { GenealogistPop(greedy, est0, est1, r) :
                      est0 \in Estimates, est1 \in Estimates, r \in GenealogistRandom } :
          /\ pc' = IF g.raised THEN "crashed" ELSE "popped"
          /\ current_arm' = g.arm
          /\ current_url' = g.url
    /\ unexplored' = IF Len(unexplored) = 0 THEN unexplored ELSE Tail(unexplored)
    /\ acted' = NoArm
    /\ rewarded' = NoArm
    /\ iterations' = iterations + 1
    /\ UNCHANGED <<nodes, edges, policy, winner, committed, repo>>

\* Crawler.pop with Genealogist.pop
PopGenealogist(greedy) ==
    /\ pc = "ready"
    /\ Looping
    /\ policy = "Genealogist"
    /\ \E g \in { GenealogistPop(greedy, est0, est1, r) :
                      est0 \in Estimates, est1 \in Estimates, r \in GenealogistRandom } :
          /\ pc' = IF g.raised THEN "crashed" ELSE "popped"
          /\ current_arm' = g.arm
          /\ current_url' = g.url
    /\ acted' = NoArm
    /\ rewarded' = NoArm
    /\ iterations' = iterations + 1
    /\ UNCHANGED <<nodes, edges, unexplored, policy, winner, committed, repo>>

\* arms.LinearArm is not defined in arms.py; it is taken to estimate and
\* download as the Classifier does ("the action always involves
\* downloading a page")
LinearArmLike == "Classifier"

Kind(name) == IF name = "LinearArm" THEN LinearArmLike ELSE name

\* Arm.action of each kind of arm: the log afterwards and the value
\* returned, or the PropsFetchError of the estimate
ArmAction(kind, log, url, est, page) ==
    IF kind = "LameArm"
    THEN [raised |-> FALSE, log |-> add_url(log, url, FALSE, NaN, page), ret |-> 0]
    ELSE IF ~est.ok THEN [raised |-> TRUE, log |-> log, ret |-> 0]
    ELSE [raised |-> FALSE, log |-> add_url(log, url, TRUE, Some(est.val), page),
          ret |-> est.val]

\* the arm Bandit.action lets act, given the arm just picked
ActingArm(p, arm) == IF p = "ClassyBandit" THEN 0 ELSE arm

\* reward delegated to the arm that was not picked
RewardOtherArm(p, cur) == IF p = "ClassyBandit" THEN 0 ELSE 1 - cur

\* the arm Bandit.reward delegates to
RewardArm(p, cur) == IF p = "ClassyBandit" THEN 0 ELSE cur

MAX_SIZE == 1000000

\* Classifier._response, times 100 * max_size to stay in the integers
\* (max_size is MAX_SIZE unless the arm is given another)
Response(count, sz) == count * MAX_SIZE - 100 * sz

\* Arm.reward of each kind of arm: LameArm returns 0, the others return
\* the response unless the _evaluate of the training step raises
ArmReward(kind, rw, sz) ==
    IF kind = "LameArm" THEN Value(0)
    ELSE IF ~rw.ok THEN Raised
    ELSE Value(Response(rw.val, sz))

\* what the reward draws: the count, or the PropsFetchError of _evaluate
RewardsOf(kind) ==
    IF kind \in {"LameArm", "Connector"} THEN {Value(c) : c \in Counts}
    ELSE {Raised} \cup {Value(c) : c \in Counts}

Rows(nds, key) == {i \in 1..Len(nds) : nds[i].key = key}

\* the 'path' column exists once a fetched row was appended
HasPathColumn(nds) == \E i \in 1..Len(nds) : nds[i].path # NaN

\* a process that takes the first row of a duplicated key instead of
\* failing on it, and writes the reward on every row of the key
RewardingAgain(nds, key, kind, rw) ==
    IF ~HasPathColumn(nds) \/ Rows(nds, key) = {}
    THEN [nodes |-> nds, pc |-> "crashed", called |-> FALSE]
    ELSE LET i == CHOOSE i \in Rows(nds, key) : \A j \in Rows(nds, key) : i <= j
         IN  IF nds[i].path = NaN THEN [nodes |-> nds, pc |-> "ready", called |-> FALSE]
             ELSE IF ~ArmReward(kind, rw, nds[i].size[1]).ok
                  THEN [nodes |-> nds, pc |-> "crashed", called |-> TRUE]
             ELSE [nodes |-> [j \in 1..Len(nds) |->
                                 IF j \in Rows(nds, key)
                                 THEN [nds[j] EXCEPT !.reward =
                                          Some(ArmReward(kind, rw, nds[i].size[1]).val)]
                                 ELSE nds[j]],
                   pc |-> "ready", called |-> TRUE]

\* the part of Crawler.process after the action: the path cell of the
\* row of current_url, and the reward when the page was stored
Rewarding(nds, key, kind, rw) ==
    IF ~HasPathColumn(nds) \/ Cardinality(Rows(nds, key)) # 1
    THEN [nodes |-> nds, pc |-> "crashed", called |-> FALSE]
    ELSE LET i == CHOOSE i \in Rows(nds, key) : TRUE
         IN  IF nds[i].path = NaN THEN [nodes |-> nds, pc |-> "ready", called |-> FALSE]
             ELSE IF ~ArmReward(kind, rw, nds[i].size[1]).ok
                  THEN [nodes |-> nds, pc |-> "crashed", called |-> TRUE]
             ELSE [nodes |-> [nds EXCEPT ![i].reward = Some(ArmReward(kind, rw, nds[i].size[1]).val)],
                   pc |-> "ready", called |-> TRUE]

\* Crawler.process once the bandit has picked arm and holds cur as its
\* current_arm: the arm acts, then the bandit is rewarded.  The result is
\* the log, the crawler's position and the arms that acted and were rewarded.
Process(arm, cur, est, page, rw) ==
    LET p    == policy
        kind == Kind(Arms(p)[ActingArm(p, arm) + 1])
        act  == ArmAction(kind, Log, current_url, est, page)
        to   == RewardArm(p, cur)
        rwd  == Rewarding(act.log.nodes, urlkey(current_url), Kind(Arms(p)[to + 1]), rw)
    IN  IF act.raised
        THEN [nodes |-> nodes, edges |-> edges, unexplored |-> unexplored,
              pc |-> "crashed", acted |-> NoArm, rewarded |-> NoArm, repo |-> repo]
        ELSE [nodes |-> rwd.nodes, edges |-> act.log.edges, unexplored |-> act.log.unexplored,
              pc |-> rwd.pc, acted |-> ActingArm(p, arm),
              rewarded |-> IF rwd.called THEN to ELSE NoArm,
              repo |-> Stored(repo, Log, current_url, kind # "LameArm", page)]

\* every result of Process over the inputs it draws: the estimate of the
\* acting arm, the page when it fetches, the reward when the page is stored
Processed(arm, cur) ==
    LET acting == Kind(Arms(policy)[ActingArm(policy, arm) + 1])
        to     == Kind(Arms(policy)[RewardArm(policy, cur) + 1])
    IN  UNION { UNION { { Process(arm, cur, est, page, rw) :
                            rw \in (IF page.ok THEN RewardsOf(to) ELSE {Value(0)}) } :
                        page \in (IF est.ok /\ acting # "LameArm" THEN Fetchable ELSE {NoPage}) } :
                est \in EstimatesOf(acting) }

Acting(arm, cur) ==
    \E o \in Processed(arm, cur) :
        /\ nodes' = o.nodes
        /\ edges' = o.edges
        /\ unexplored' = o.unexplored
        /\ pc' = o.pc
        /\ acted' = o.acted
        /\ rewarded' = o.rewarded
        /\ repo' = o.repo
        /\ UNCHANGED <<policy, current_url, iterations>>

\* Crawler.process with ClassyBandit: pick_arm is 0, current_arm is not set
ProcessClassy ==
    /\ pc = "popped"
    /\ policy = "ClassyBandit"
    /\ UNCHANGED <<current_arm, winner, committed>>
    /\ Acting(0, current_arm)

\* what Lefty.pick_arm may do on one branch: raise from the estimate of
\* the greedy branch, or return an arm
LeftyPicks(greedy) ==
    { IF greedy /\ ~est0.ok THEN [raised |-> TRUE, arm |-> NoArm]
      ELSE [raised |-> FALSE, arm |-> LeftyPickArm(greedy, est0.val, r)] :
      est0 \in EstimatesOf("Classifier"), r \in LeftyRandom }

\* Crawler.process with Lefty: action sets current_arm to the picked arm;
\* the estimate of the greedy branch may raise before anything is set
ProcessLefty(greedy) ==
    /\ pc = "popped"
    /\ policy = "Lefty"
    /\ UNCHANGED <<winner, committed>>
    /\ \E pick \in LeftyPicks(greedy) :
          IF pick.raised
          THEN /\ pc' = "crashed"
               /\ acted' = NoArm
               /\ rewarded' = NoArm
               /\ UNCHANGED <<nodes, edges, unexplored, policy, current_arm, current_url, repo,
                               iterations>>
          ELSE /\ current_arm' = pick.arm
               /\ Acting(pick.arm, pick.arm)

\* Crawler.process with Genealogist: the arm is the one pop() picked
ProcessGenealogist ==
    /\ pc = "popped"
    /\ policy = "Genealogist"
    /\ UNCHANGED <<current_arm, winner, committed>>
    /\ Acting(current_arm, current_arm)

\* what Crampy.pick_arm may do, over the means and run counts the arms
\* report and the random draw
CrampyPicks ==
    { [winner |-> CrampyWinner(winner, mean0, mean1, runs),
       arm |-> CrampyPickArm(winner, mean0, mean1, runs, r)] :
      mean0 \in Means, mean1 \in Means, runs \in 0..MaxRuns, r \in CrampyRandom }

\* Crawler.process with Crampy: pick_arm may fix the winner
ProcessCrampy ==
    /\ pc = "popped"
    /\ policy = "Crampy"
    /\ \E pick \in CrampyPicks :
          /\ winner' = pick.winner
          /\ committed' = winner
          /\ current_arm' = pick.arm
          /\ Acting(pick.arm, pick.arm)

Next ==
    \/ PopQueue
    \/ \E greedy \in BOOLEAN : PopGenealogist(greedy)
    \/ ProcessClassy
    \/ \E greedy \in BOOLEAN : ProcessLefty(greedy)
    \/ ProcessGenealogist
    \/ ProcessCrampy

Spec == Init /\ [][Next]_vars

\* ----------------------------------------------------------------- claims
\* a step of Crawler.pop that went to the frontier queue
QueuePopStep == pc = "ready" /\ pc' # "ready" /\ policy # "Genealogist"

\* the positions of the frontier entries whose key has no node
Survivors == {i \in 1..Len(unexplored) : urlkey(unexplored[i]) \notin NodeKeys(nodes)}

FirstSurvivor == CHOOSE i \in Survivors : \A j \in Survivors : i <= j

\* C1: no two rows of the node table share a key.
C1_UniqueKeys ==
    \A i \in 1..Len(nodes), j \in 1..Len(nodes) : i # j => nodes[i].key # nodes[j].key

\* C2: the url SubjectLog.pop() has returned has a key that is not the key
\* of any node in the table.
C2_PopReturnsFresh ==
    (pc = "popped" /\ policy # "Genealogist") => urlkey(current_url) \notin NodeKeys(nodes)

\* C3: pop() returns (completed) the first frontier entry whose key has no
\* node, and leaves in the frontier exactly the entries after it.
C3_PopFirstSurvivor ==
    [][(QueuePopStep /\ Survivors # {}) =>
          /\ pc' = "popped"
          /\ current_url' = complete_url(unexplored[FirstSurvivor])
          /\ unexplored' = SubSeq(unexplored, FirstSurvivor + 1, Len(unexplored))]_vars

\* C3 witness: the page of the starting url A linked A, B, A; pop() has
\* dropped the leading A and returned B, the trailing A is still queued.
C3_Witness ==
    /\ pc = "popped"
    /\ policy = "Lefty"
    /\ Len(nodes) = 1
    /\ [i \in 1..Len(edges) |-> edges[i].target] = <<Rel(<<"A">>), Rel(<<"B">>), Rel(<<"A">>)>>
    /\ current_url = Abs(<<"B">>)
    /\ unexplored = <<Rel(<<"A">>)>>

\* C4: pop() raises EmptyQueue exactly when no frontier entry has a key
\* without a node, and returns a url in every other case.
C4_EmptyQueueIff ==
    [][QueuePopStep =>
          /\ (pc' = "empty") <=> (Survivors = {})
          /\ (pc' = "popped") <=> (Survivors # {})]_vars

\* C4 witness: EmptyQueue was raised on a frontier that was not empty (the
\* starting page linked only to itself).
C4_Witness ==
    /\ pc = "empty"
    /\ Len(nodes) = 1
    /\ Len(edges) > 0
    /\ unexplored = <<>>

\* a step of Crawler.process in which add_url fetched and the fetch failed:
\* only the row of a failed fetch has no url
FailedFetchStep ==
    /\ pc = "popped"
    /\ Len(nodes') = Len(nodes) + 1
    /\ Last(nodes').url = NaN

FailedKeys(nds) == {nds[i].key : i \in {j \in 1..Len(nds) : nds[j].url = NaN}}

\* C5: a failed fetch still inserts one node keyed urlkey(url) with size,
\* linkage and path absent, adds no edge and no frontier entry, and no
\* later pop() returns a url with the key of a failed node.
C5_FailedFetchNode ==
    [][/\ FailedFetchStep =>
              /\ SubSeq(nodes', 1, Len(nodes)) = nodes
              /\ Last(nodes').key = urlkey(current_url)
              /\ Last(nodes').size = NaN
              /\ Last(nodes').linkage = NaN
              /\ Last(nodes').path = NaN
              /\ edges' = edges
              /\ unexplored' = unexplored
       /\ (QueuePopStep /\ pc' = "popped") =>
              urlkey(current_url') \notin FailedKeys(nodes)]_vars

\* the urls pick_sibling and pick_child are asked about
QueryUrls == StartUrls \cup {complete_url(h) : h \in Hrefs}

Visited(url) == urlkey(url) \in NodeKeys(nodes)

\* C6: the url pick_sibling or pick_child returns, for any query url, has
\* a key that is not the key of any node.
C6_PicksAreFresh ==
    \A u \in QueryUrls :
        /\ ~pick_sibling(edges, nodes, u).raised => ~Visited(pick_sibling(edges, nodes, u).url)
        /\ ~pick_child(edges, nodes, u).raised => ~Visited(pick_child(edges, nodes, u).url)

\* the url picked is unvisited, it is the completed form of one of the
\* candidates, and no unvisited candidate has more incoming links than it
MostLinked(picked, candidates) ==
    /\ ~Visited(picked)
    /\ \E p \in candidates :
          /\ complete_url(p) = picked
          /\ \A t \in candidates :
                ~Visited(complete_url(t)) => linkage(edges, p) >= linkage(edges, t)

\* C7: pick_sibling returns an unvisited target of a parent of the url
\* with the most incoming links among the unvisited siblings, pick_child
\* an unvisited target of the url with the most among the unvisited children.
C7_PicksMostLinked ==
    \A u \in QueryUrls :
        /\ ~pick_sibling(edges, nodes, u).raised =>
              MostLinked(pick_sibling(edges, nodes, u).url, Siblings(edges, u))
        /\ ~pick_child(edges, nodes, u).raised =>
              MostLinked(pick_child(edges, nodes, u).url, Children(edges, u))

\* C8: once Crampy's winner is set it is never reassigned, and every
\* later pick_arm returns it.
C8_WinnerIsFinal ==
    [][winner # NoArm =>
          /\ winner' = winner
          /\ (policy = "Crampy" /\ pc = "popped" /\ pc' # "popped") => current_arm' = winner]_vars

\* C8 witness: pick_arm was called with the winner already set.
C8_Witness == policy = "Crampy" /\ committed # NoArm /\ current_arm = committed

\* C9: on the exploration branch of Lefty.pick_arm and of
\* Genealogist.pick_arm both arm 0 and arm 1 are possible results.
C9_ExploreBothArms ==
    /\ (policy = "Lefty" /\ pc = "popped") =>
          {LeftyPickArm(FALSE, e, r) : e \in Estimates, r \in LeftyRandom} = {0, 1}
    /\ (policy = "Genealogist" /\ pc = "ready") =>
          {GenealogistPickArm(FALSE, e[1], e[2], r) :
              e \in Estimates \X Estimates, r \in GenealogistRandom} = {0, 1}

\* C10 as stated: whenever reward was called in an iteration, current_arm
\* is set and names both the arm rewarded and the arm that acted.
C10_RewardAtCurrentArm ==
    rewarded # NoArm => (current_arm # NoArm /\ rewarded = current_arm /\ acted = current_arm)

\* C10 amended: the arm rewarded is the arm that acted; with the two-arm
\* policies that is the arm at current_arm, which is set, and with
\* ClassyBandit it is arm 0 while current_arm stays unset.
C10_RewardToActingArm ==
    rewarded # NoArm =>
        /\ rewarded = acted
        /\ policy # "ClassyBandit" => (current_arm # NoArm /\ rewarded = current_arm)
        /\ policy = "ClassyBandit" => (current_arm = NoArm /\ rewarded = 0)

\* C10 witness: an iteration of a two-arm policy in which arm 1 acted and
\* was rewarded.
C10_Witness == policy # "ClassyBandit" /\ pc = "ready" /\ acted = 1 /\ rewarded = 1

\* the rows of a key that carry a reward
Rewards(nds, key) == {i \in Rows(nds, key) : nds[i].reward # NaN}

\* C11: a reward once written stays as it is, a reward is written only on
\* a row whose page was stored, reward() is called only for a key that has
\* no reward yet, and no key ever has more than one rewarded row.
C11_RewardWrittenOnce ==
    [][/\ \A i \in 1..Len(nodes) :
              nodes[i].reward # NaN => (i <= Len(nodes') /\ nodes'[i].reward = nodes[i].reward)
       /\ \A i \in 1..Len(nodes') :
              (nodes'[i].reward # NaN /\ (i > Len(nodes) \/ nodes[i].reward = NaN)) =>
                  nodes'[i].path # NaN
       /\ rewarded' # NoArm => Rewards(nodes, urlkey(current_url)) = {}
       /\ \A k \in NodeKeys(nodes') : Cardinality(Rewards(nodes', k)) <= 1]_vars

\* C11 witness: the second row was rewarded and an iteration for another
\* key has completed after it.
C11_Witness ==
    /\ pc = "ready"
    /\ Len(nodes) = 3
    /\ nodes[2].reward # NaN
    /\ nodes[3].key # nodes[2].key

\* the kinds of the arms of the policy
ArmKinds == {Kind(Arms(policy)[a]) : a \in DOMAIN Arms(policy)}

\* C12: when the relevance oracle or the size probe fails for the popped
\* url, the action of every arm of the policy still completes and the log
\* gets the node of that url.
C12_LookupFailureAbsorbed ==
    pc = "popped" =>
        \A kind \in ArmKinds, relevance_ok \in BOOLEAN, size_ok \in BOOLEAN, v \in Estimates :
            (~relevance_ok \/ ~size_ok) =>
                LET act == ArmAction(kind, Log, current_url,
                                     Evaluate(kind, relevance_ok, size_ok, v), NoPage)
                IN  /\ ~act.raised
                    /\ Len(act.log.nodes) = Len(nodes) + 1
                    /\ Last(act.log.nodes).key = urlkey(current_url)

\* the rows that were in the table when the file f was written and that
\* refer to it
RowsOfFile(f) == {i \in 1..f.rows : nodes[i].path = Some(f.path)}

\* C13: when the file of a fetched url is written, the node of that url is
\* already in the node table and its edges are already in the edge table.
C13_WriteAfterCommit ==
    \A k \in 1..Len(repo) :
        \E i \in RowsOfFile(repo[k]) :
            Cardinality({j \in 1..repo[k].edges : edges[j].source = nodes[i].url[1]})
                >= nodes[i].linkage[1]

\* C13 amended: a file is written when the row and the links of its page
\* have been built without an exception and before they are appended: the
\* row of the file is the one appended next, no earlier row refers to the
\* file and no edge of its url is in the table yet; once add_url is over
\* every file has its row and every row with a path has its file, so a
\* failed fetch leaves no file.
C13_WriteThenCommit ==
    /\ \A k \in 1..Len(repo) :
          /\ repo[k].rows < Len(nodes)
          /\ nodes[repo[k].rows + 1].path = Some(repo[k].path)
          /\ RowsOfFile(repo[k]) = {}
          /\ \A j \in 1..repo[k].edges : edges[j].source # nodes[repo[k].rows + 1].url[1]
    /\ \A i \in 1..Len(nodes) :
          nodes[i].path # NaN => \E k \in 1..Len(repo) : Some(repo[k].path) = nodes[i].path

\* C13 witness: two pages were stored and a fetch in between failed.
C13_Witness ==
    /\ Len(repo) = 2
    /\ Len(nodes) = 3
    /\ nodes[2].url = NaN
    /\ nodes[3].path # NaN

\* a step of Crawler.process in which the arm that acted is a LameArm
LameStep ==
    /\ pc = "popped"
    /\ acted' # NoArm
    /\ Kind(Arms(policy)[acted' + 1]) = "LameArm"

\* the keys of the rows logged without a fetch: they carry the url and no size
SkippedKeys(nds) ==
    {nds[i].key : i \in {j \in 1..Len(nds) : nds[j].url # NaN /\ nds[j].size = NaN}}

\* the frame of a LameArm step: one row for the url with no size, linkage
\* or path, nothing else touched, and 0 returned
LameFrame ==
    /\ Len(nodes') = Len(nodes) + 1
    /\ SubSeq(nodes', 1, Len(nodes)) = nodes
    /\ Last(nodes').key = urlkey(current_url)
    /\ Last(nodes').url = Some(current_url)
    /\ Last(nodes').size = NaN
    /\ Last(nodes').linkage = NaN
    /\ Last(nodes').path = NaN
    /\ edges' = edges
    /\ unexplored' = unexplored
    /\ repo' = repo
    /\ ArmAction("LameArm", Log, current_url, Value(0), NoPage).ret = 0

\* C14: when a LameArm acts, one node for the url is inserted without a
\* fetch, edges and frontier stay as they are and the action returns 0;
\* and no later pop() returns a url with the key of such a node.
C14_LameArmFrame ==
    [][/\ LameStep => LameFrame
       /\ (QueuePopStep /\ pc' = "popped") =>
              urlkey(current_url') \notin SkippedKeys(nodes)]_vars

\* the table holds the starting node and one more node for each
\* iteration that has completed; an iteration that raised added at most one
OneNodeEach ==
    /\ pc = "ready" => Len(nodes) = iterations + 1
    /\ pc \in {"popped", "empty"} => Len(nodes) = iterations
    /\ pc = "crashed" => Len(nodes) \in {iterations, iterations + 1}

\* the loop is over after max_pages - 1 completed iterations at the latest
BoundedLoop ==
    /\ iterations <= MaxPages
    /\ (pc = "ready" /\ iterations >= MaxPages - 1) => done(MaxPages, MaxTotalSize)

\* C15 as stated: every completed iteration adds one node, the loop makes
\* at most max_pages iterations, and the only iteration that does not
\* complete is one in which pop() raised EmptyQueue.
C15_StopsDoneOrEmpty ==
    /\ OneNodeEach
    /\ BoundedLoop
    /\ pc \notin {"ready", "popped"} => pc = "empty"

\* C15 amended: every completed iteration adds one node, the loop makes at
\* most max_pages iterations, and an iteration that does not complete has
\* raised: EmptyQueue from the queue's pop(), or another exception out of
\* pop() or process().
C15_Stops ==
    /\ OneNodeEach
    /\ BoundedLoop
    /\ pc \notin {"ready", "popped"} => pc \in {"empty", "crashed"}

\* C15 witness: the page budget was met by the last iteration it allows.
C15_Witness ==
    /\ pc = "ready"
    /\ Len(nodes) = MaxPages
    /\ iterations = MaxPages - 1
    /\ size(nodes) < MaxTotalSize

\* the position of the first edge that lands on the target
FirstEdge(target) ==
    CHOOSE j \in 1..Len(edges) :
        edges[j].target = target /\ \A k \in 1..(j - 1) : edges[k].target # target

\* the rows with the most incoming edges
Tops(rows) == {t \in rows : \A o \in rows : Incoming(edges, t) >= Incoming(edges, o)}

\* of the rows with the most incoming edges, the one met first in the edges
FirstMet(rows) ==
    CHOOSE t \in Tops(rows) : \A o \in Tops(rows) : FirstEdge(t) <= FirstEdge(o)

\* C16: of the unvisited candidates with the most incoming edges,
\* pick_sibling and pick_child return the one that comes first in the
\* order the edges were inserted.
C16_TiesByInsertionOrder ==
    \A u \in QueryUrls :
        /\ ~pick_sibling(edges, nodes, u).raised =>
              pick_sibling(edges, nodes, u).url
                  = complete_url(FirstMet(Remaining(Siblings(edges, u), nodes)))
        /\ ~pick_child(edges, nodes, u).raised =>
              pick_child(edges, nodes, u).url
                  = complete_url(FirstMet(Remaining(Children(edges, u), nodes)))

\* a step of Crawler.process in which add_url fetched the page
FetchedStep ==
    /\ pc = "popped"
    /\ Len(nodes') = Len(nodes) + 1
    /\ Last(nodes').path # NaN

\* C17: a successful fetch appends its n links as n edges with the url as
\* source and as n frontier entries with the same targets in the same
\* order, the new node's linkage is n, and the edges and frontier entries
\* that were there stay in place.
C17_LinksAppended ==
    [][FetchedStep =>
          LET n == Len(edges') - Len(edges)
          IN  /\ n >= 0
              /\ SubSeq(edges', 1, Len(edges)) = edges
              /\ \A j \in 1..n : edges'[Len(edges) + j].source = current_url
              /\ unexplored' = unexplored \o [j \in 1..n |-> edges'[Len(edges) + j].target]
              /\ Last(nodes').linkage = Some(n)]_vars

\* C17 witness: the second page fetched had two links, to two targets, one
\* of them linked before; both were appended behind the edge that was there.
C17_Witness ==
    /\ Len(nodes) = 2
    /\ nodes[2].linkage = Some(2)
    /\ Len(edges) = 3
    /\ edges[1].source # nodes[2].url[1]
    /\ edges[2].source = nodes[2].url[1]
    /\ edges[3].source = nodes[2].url[1]
    /\ edges[2].target = edges[1].target
    /\ edges[3].target # edges[2].target
    /\ unexplored = <<edges[2].target, edges[3].target>>

\* a step of Crawler.process in which the arm's action logged the url
LoggedStep == pc = "popped" /\ Len(nodes') = Len(nodes) + 1

\* C18: process() calls reward and writes the reward of the node just
\* logged only when that node has a path; when the node was logged without
\* a fetch or its fetch failed, process() completes without calling reward
\* and the reward of the node stays absent.
C18_RewardOnlyWhenFetched ==
    [][LoggedStep =>
          /\ (rewarded' # NoArm \/ Last(nodes').reward # NaN) => Last(nodes').path # NaN
          /\ Last(nodes').path = NaN =>
                (pc' = "ready" /\ rewarded' = NoArm /\ Last(nodes').reward = NaN)]_vars

\* the two candidates of Genealogist.pop; the log is as pop() found it
\* until process() runs
SiblingPick == pick_sibling(edges, nodes, LastUrl(nodes).url).url

ChildPick == pick_child(edges, nodes, LastUrl(nodes).url).url

\* Genealogist.pop has returned and process() is due
GenealogistPopped == policy = "Genealogist" /\ pc = "popped"

\* C19 as stated: after Genealogist.pop, current_arm is 0 exactly when the
\* url returned is the sibling candidate and 1 exactly when it is the child
\* candidate, and the action and the reward that follow use that arm.
C19_ArmIffCandidate ==
    [][GenealogistPopped =>
          /\ current_arm = 0 <=> current_url = SiblingPick
          /\ current_arm = 1 <=> current_url = ChildPick
          /\ acted' = current_arm
          /\ rewarded' \in {NoArm, current_arm}]_vars

\* C19 amended: current_arm is 0 or 1, the url returned is the sibling
\* candidate when it is 0 and the child candidate when it is 1 (the two
\* candidates may be the same url), and the action and the reward that
\* follow use that arm.
C19_CandidateOfArm ==
    [][GenealogistPopped =>
          /\ current_arm \in {0, 1}
          /\ current_arm = 0 => current_url = SiblingPick
          /\ current_arm = 1 => current_url = ChildPick
          /\ acted' = current_arm
          /\ rewarded' \in {NoArm, current_arm}]_vars

\* C19 witness: the two candidates differ, the child arm was picked and
\* its candidate was returned.
C19_Witness ==
    /\ GenealogistPopped
    /\ current_arm = 1
    /\ SiblingPick # ChildPick
    /\ current_url = ChildPick

\* C20: for every frontier entry, the key pop() tests against the node
\* table is the key under which the url it returns is inserted, whether
\* the entry is relative, absolute or ends with a separator.
C20_KeyOfCompleted ==
    \A i \in 1..Len(unexplored) :
        urlkey(unexplored[i]) = urlkey(complete_url(unexplored[i]))

\* a step of Crawler.pop under the Genealogist policy
GenealogistPopStep ==
    policy = "Genealogist" /\ pc = "ready" /\ iterations' = iterations + 1

\* the frontier before a step is the beginning of the frontier after it
FrontierKept ==
    /\ Len(unexplored') >= Len(unexplored)
    /\ SubSeq(unexplored', 1, Len(unexplored)) = unexplored

\* C21: Genealogist.pop(log) leaves the Log unchanged: the Node table, the
\* Edge set and the frontier queue are the same before and after the call,
\* of the bandit only current_arm may change, and under this policy no step
\* ever takes an entry off the frontier.
C21_GenealogistPopFrame ==
    [][/\ GenealogistPopStep =>
              /\ nodes' = nodes
              /\ edges' = edges
              /\ unexplored' = unexplored
              /\ winner' = winner
              /\ policy' = policy
       /\ policy = "Genealogist" => FrontierKept]_vars

\* C21 witness: Genealogist.pop has returned a second time, with a changed
\* current_arm, and the frontier still holds an entry for every edge logged.
C21_Witness ==
    /\ GenealogistPopped
    /\ iterations = 2
    /\ current_arm = 0
    /\ acted = NoArm
    /\ Len(unexplored) > 0
    /\ Len(unexplored) = Len(edges)

====
